---- MODULE Spec2Model ----
(***************************************************************************)
(* Model of app.py (Family Travel Planner): the geocoding cache and rate   *)
(* limiter (_geocode_cached, get_location_coordinates), the location       *)
(* clean-up and marker loop of create_map_with_route, and the display step *)
(* of the main script that calls it.                                       *)
(*                                                                         *)
(* Time is counted in half seconds: 1.5 s is 3 ticks, one hour 7200 ticks. *)
(* A Python string is a sequence of one-character strings.                 *)
(***************************************************************************)
EXTENDS Integers, Sequences, FiniteSets, TLC

(***************************************************************************)
(* Python values                                                           *)
(***************************************************************************)

\* Python's None where the code only tests it for truth (a geocode that found
\* nothing, a city not found): written as the empty tuple, which `not x`
\* treats like None and like ''.
None == <<>>

\* `if x:` for a geocode result or a str: None and '' are falsy, a
\* (lat, lon) tuple is truthy whatever its numbers.
Truthy(v) == v /= None

Max(a, b) == IF a >= b THEN a ELSE b

(***************************************************************************)
(* Characters and the str / re operations the clean-up uses                *)
(***************************************************************************)

UpperLetters == <<"A","B","C","D","E","F","G","H","I","J","K","L","M",
                  "N","O","P","Q","R","S","T","U","V","W","X","Y","Z">>

LowerLetters == <<"a","b","c","d","e","f","g","h","i","j","k","l","m",
                  "n","o","p","q","r","s","t","u","v","w","x","y","z">>

Digits == {"0","1","2","3","4","5","6","7","8","9"}

\* \s of re (the whitespace characters a TLA+ string can spell).
Whitespace == {" ", "\t", "\n", "\r", "\f"}

Range(s) == {s[i] : i \in 1..Len(s)}

\* \w of re: letters, digits and the underscore.
IsWordChar(c) == c \in Range(UpperLetters) \cup Range(LowerLetters) \cup Digits \cup {"_"}

\* str.lower() on one character.
LowerChar(c) ==
    IF \E i \in 1..26 : UpperLetters[i] = c
    THEN LowerLetters[CHOOSE i \in 1..26 : UpperLetters[i] = c]
    ELSE c

\* str.lower()
Lower(s) == [i \in 1..Len(s) |-> LowerChar(s[i])]

\* s[i:] (i counted from 1)
From(s, i) == SubSeq(s, i, Len(s))

\* s.startswith(p) at position i
MatchAt(s, i, p) == i + Len(p) - 1 <= Len(s) /\ SubSeq(s, i, i + Len(p) - 1) = p

\* p in s
Contains(s, p) == \E i \in 1..(Len(s) + 1) : MatchAt(s, i, p)

\* str.strip()
RECURSIVE LStrip(_)
LStrip(s) == IF s /= <<>> /\ Head(s) \in Whitespace THEN LStrip(Tail(s)) ELSE s

RECURSIVE RStrip(_)
RStrip(s) ==
    IF s /= <<>> /\ s[Len(s)] \in Whitespace THEN RStrip(SubSeq(s, 1, Len(s) - 1)) ELSE s

Strip(s) == RStrip(LStrip(s))

\* str.split(','): always at least one part.
RECURSIVE Split(_)
Split(s) ==
    IF \E i \in 1..Len(s) : s[i] = ","
    THEN LET i == CHOOSE k \in 1..Len(s) : s[k] = "," /\ \A j \in 1..(k - 1) : s[j] /= ","
         IN  <<SubSeq(s, 1, i - 1)>> \o Split(From(s, i + 1))
    ELSE <<s>>

\* re.sub(r'\([^)]*\)', '', s): every "(" that has a ")" after it is removed
\* together with everything up to the first such ")".
RECURSIVE RemoveParens(_)
RemoveParens(s) ==
    IF s = <<>> THEN <<>>
    ELSE IF Head(s) = "(" /\ \E j \in 2..Len(s) : s[j] = ")"
    THEN LET j == CHOOSE k \in 2..Len(s) : s[k] = ")" /\ \A m \in 2..(k - 1) : s[m] /= ")"
         IN  RemoveParens(From(s, j + 1))
    ELSE <<Head(s)>> \o RemoveParens(Tail(s))

\* The alternation of the prefix pattern, in the order re tries it.
Prefixes == << <<"i","n","s","i","d","e">>, <<"n","e","a","r">>, <<"a","t">>, <<"i","n">> >>

\* re.sub(r'^(Inside|Near|At|In)\s+', '', s, flags=re.IGNORECASE)
PrefixMatches(s, p) ==
    /\ MatchAt(Lower(s), 1, p)
    /\ Len(s) > Len(p)
    /\ s[Len(p) + 1] \in Whitespace

RemovePrefix(s) ==
    IF \E k \in 1..Len(Prefixes) : PrefixMatches(s, Prefixes[k])
    THEN LET k == CHOOSE n \in 1..Len(Prefixes) :
                     /\ PrefixMatches(s, Prefixes[n])
                     /\ \A m \in 1..(n - 1) : ~PrefixMatches(s, Prefixes[m])
         IN  LStrip(From(s, Len(Prefixes[k]) + 1))
    ELSE s

\* \b of re at the gap before position i (1..Len(s)+1).
WordBoundary(s, i) ==
    LET before == i > 1 /\ IsWordChar(s[i - 1])
        after  == i <= Len(s) /\ IsWordChar(s[i])
    IN  before /= after

\* re.sub(r'\b\d{5}\b', '', s), scanning from position i.
RECURSIVE RemovePostalFrom(_, _)
RemovePostalFrom(s, i) ==
    IF i > Len(s) THEN <<>>
    ELSE IF /\ i + 4 <= Len(s)
            /\ \A k \in i..(i + 4) : s[k] \in Digits
            /\ WordBoundary(s, i)
            /\ WordBoundary(s, i + 5)
    THEN RemovePostalFrom(s, i + 5)
    ELSE <<s[i]>> \o RemovePostalFrom(s, i + 1)

RemovePostal(s) == RemovePostalFrom(s, 1)

\* re.sub(r'\s+', ' ', s)
RECURSIVE CollapseSpaces(_)
CollapseSpaces(s) ==
    IF s = <<>> THEN <<>>
    ELSE IF Head(s) \in Whitespace
    THEN <<" ">> \o CollapseSpaces(LStrip(s))
    ELSE <<Head(s)>> \o CollapseSpaces(Tail(s))

\* re.sub(r',\s*,', ',', s)
RECURSIVE RemoveDoubleCommas(_)
RemoveDoubleCommas(s) ==
    IF s = <<>> THEN <<>>
    ELSE LET rest == LStrip(Tail(s))
         IN  IF Head(s) = "," /\ rest /= <<>> /\ Head(rest) = ","
             THEN <<",">> \o RemoveDoubleCommas(Tail(rest))
             ELSE <<Head(s)>> \o RemoveDoubleCommas(Tail(s))

\* The fixed list of city names of the city search.
KnownCities ==
    { <<"B","a","r","c","e","l","o","n","a">>, <<"L","i","s","b","o","n">>,
      <<"A","t","h","e","n","s">>, <<"P","a","r","i","s">>, <<"R","o","m","e">>,
      <<"M","a","d","r","i","d">>, <<"P","o","r","t","o">> }

\* The condition of the city search for one part.
IsCityPart(part, destination) ==
    \/ Contains(Lower(part), Lower(destination))
    \/ \E c \in KnownCities : Contains(part, c)

\* for part in parts: if ...: city = part.strip(); break -- None when no part matches.
FindCity(parts, destination) ==
    IF \E k \in 1..Len(parts) : IsCityPart(parts[k], destination)
    THEN LET k == CHOOSE n \in 1..Len(parts) :
                     /\ IsCityPart(parts[n], destination)
                     /\ \A m \in 1..(n - 1) : ~IsCityPart(parts[m], destination)
         IN  Strip(parts[k])
    ELSE None

CommaSpace == <<",", " ">>

\* parts = clean_location.split(','); with 3 parts or more the string is
\* rebuilt as "landmark, city, country".
KeepLandmarkCityCountry(s, destination) ==
    LET parts == Split(s)
    IN  IF Len(parts) >= 3
        THEN LET landmark == Strip(parts[1])
                 country  == Strip(parts[Len(parts)])
                 found    == FindCity(parts, destination)
                 city     == IF Truthy(found) THEN found ELSE Strip(parts[Len(parts) - 1])
             IN  landmark \o CommaSpace \o city \o CommaSpace \o country
        ELSE s

\* The clean-up of one location string, step by step as in the loop body.
CleanLocation(location_name, destination) ==
    LET s1 == RemoveParens(location_name)
        s2 == RemovePrefix(s1)
        s3 == KeepLandmarkCityCountry(s2, destination)
        s4 == RemovePostal(s3)
        s5 == Strip(CollapseSpaces(s4))
    IN  RemoveDoubleCommas(s5)

\* alt_location = f"{activity.get('name', '')}, {destination}"
AltLocation(name, destination) == name \o CommaSpace \o destination

\* No clean-up is being followed.
CleanupOff == [pc |-> "off", location_name |-> <<>>, destination |-> <<>>,
               clean_location |-> <<>>]

(***************************************************************************)
(* Inputs and bounds                                                       *)
(***************************************************************************)

\* 1.5 seconds, the spacing of get_location_coordinates, in half seconds.
MinInterval == 3

\* ttl=3600 of st.cache_data, in half seconds.
TTL == 7200

\* Calls of get_location_coordinates one run of the caller makes.
MaxCalls == 2

\* Clicks of the Clear Cache button.
MaxClears == 1

\* Latencies of the external lookup, in half seconds: none and some.
Latencies == {0, 1}

\* Idle time before a call is entered: none, a tick, and the gaps that put
\* the next cache access just before and exactly at an entry's expiry.
Gaps == {0, 1, TTL - MinInterval - 1, TTL - MinInterval}

\* The destination the user typed.
Destination == <<"R","o","m","e">>

\* The (latitude, longitude) the geocoder knows for a query: the centre of the
\* destination, or a landmark in it.
Place(q) == IF q = Destination THEN <<41, 12>> ELSE <<42, 13>>

\* What one external lookup of q does: it finds the place, finds nothing, or
\* raises (a timeout, a refused request).
Raises == <<"raise">>
Outcomes(q) == {Place(q), None, Raises}

\* time.time() when the script starts: any value at least MinInterval after
\* the initial _last_geocode_time of 0 behaves alike.
StartTime == MinInterval

VARIABLES
    now,        \* time.time()
    last,       \* _last_geocode_time[0]
    cache,      \* the st.cache_data store of _geocode_cached: query -> [val, at]
    clears,     \* how often the cache was cleared
    geo,        \* per caller: its position in get_location_coordinates and its locals
    calls,      \* the finished calls, in order, as the caller saw them
    plan,       \* the arguments of create_map_with_route
    cm,         \* create_map_with_route: its position and its locals
    ui,         \* the display step of the main script
    cleanup     \* the clean-up of one location: its position and clean_location

geoVars == <<now, last, cache, clears, geo, calls>>
mapVars == <<plan, cm, ui, cleanup>>
vars == <<geoVars, mapVars>>

(***************************************************************************)
(* _geocode_cached and get_location_coordinates                            *)
(***************************************************************************)

\* The locals of one call, and what is remembered of it: when it was entered,
\* when its sleep is over (wake), when it reached _geocode_cached (acc) and how
\* often the cache had been cleared by then (accEpoch), when its external
\* lookup started (start, -1: none), whether the geocoder raised, the result,
\* when the entry holding the result was stored (at) and after how many
\* clears (epoch), and when it returned (ret).
Idle == [pc |-> "idle", q |-> <<>>, entered |-> 0, wake |-> 0, acc |-> 0, accEpoch |-> 0,
         start |-> -1, raised |-> FALSE, res |-> None, at |-> -1, epoch |-> 0, ret |-> 0]

SleepTimeHalfSecond(current_time, last_time) ==
    IF current_time - last_time < 1 THEN 1 - (current_time - last_time) ELSE 0

SleepTimeOneSecond(current_time, last_time) ==
    IF current_time - last_time < 2 THEN 2 - (current_time - last_time) ELSE 0

\* sleep_time: the remaining part of 1.5 s since the last call finished.
SleepTime(current_time, last_time) ==
    IF current_time - last_time < MinInterval
    THEN MinInterval - (current_time - last_time)
    ELSE 0

CacheHitHalfTtl(c, q, t) == q \in DOMAIN c /\ t < c[q].at + 3600

\* st.cache_data(ttl=3600): an entry answers until one hour after it was stored.
CacheHit(c, q, t) == q \in DOMAIN c /\ t < c[q].at + TTL

\* The cache with the outcome of a lookup stored under the exact query.
CachePut(c, q, val, t) == [k \in DOMAIN c \cup {q} |-> IF k = q THEN [val |-> val, at |-> t] ELSE c[k]]

GeocodeBodyNoExcept(outcome) ==
    IF outcome = Raises THEN [raises |-> TRUE, val |-> None]
    ELSE [raises |-> FALSE, val |-> outcome]

\* try/except of _geocode_cached: what the function does with the outcome of
\* geolocator.geocode: it returns the coordinates, or None for a place not
\* found and for any exception.
GeocodeBody(outcome) ==
    IF outcome = Raises THEN [raises |-> FALSE, val |-> None]
    ELSE [raises |-> FALSE, val |-> outcome]

\* Lines 107-111: caller t enters get_location_coordinates(q) at time t0,
\* reads the clock and _last_geocode_time, and sleeps the remaining time.
GeoEnter(t, q, t0) ==
    geo' = [geo EXCEPT ![t] = [Idle EXCEPT !.pc = "sleep", !.q = q, !.entered = t0,
                                           !.wake = t0 + SleepTime(t0, last)]]

\* Line 113, the call of _geocode_cached once the sleep is over: a cache hit
\* returns the stored value, a miss starts the external lookup.
GeoAccess(t) ==
    /\ geo[t].pc = "sleep"
    /\ LET t1 == Max(now, geo[t].wake)
           q  == geo[t].q
       IN  /\ now' = t1
           /\ IF CacheHit(cache, q, t1)
              THEN geo' = [geo EXCEPT ![t].pc = "ret", ![t].acc = t1, ![t].accEpoch = clears,
                                      ![t].res = cache[q].val, ![t].at = cache[q].at,
                                      ![t].epoch = clears]
              ELSE geo' = [geo EXCEPT ![t].pc = "lookup", ![t].acc = t1, ![t].accEpoch = clears,
                                      ![t].start = t1]
    /\ UNCHANGED <<last, cache, clears, calls, mapVars>>

\* The body of _geocode_cached: the external lookup answers after some
\* latency; the value returned is stored in the cache. An exception that
\* left the body would store nothing and leave get_location_coordinates.
GeoLookup(t, latencies) ==
    /\ geo[t].pc = "lookup"
    /\ \E outcome \in Outcomes(geo[t].q), lat \in latencies :
         LET r == GeocodeBody(outcome)
         IN  /\ now' = now + lat
             /\ IF r.raises
                THEN /\ geo' = [geo EXCEPT ![t].pc = "raised", ![t].raised = TRUE]
                     /\ cache' = cache
                ELSE /\ geo' = [geo EXCEPT ![t].pc = "ret", ![t].res = r.val,
                                           ![t].raised = (outcome = Raises),
                                           ![t].at = now + lat, ![t].epoch = clears]
                     /\ cache' = CachePut(cache, geo[t].q, r.val, now + lat)
    /\ UNCHANGED <<last, clears, calls, mapVars>>

StampAtEntry(entered, t_now) == entered

\* Line 114: _last_geocode_time[0] = time.time(), read after the lookup.
Stamp(entered, t_now) == t_now

\* Lines 114-115: the timestamp is written and the result returned.
GeoReturn(t) ==
    /\ geo[t].pc = "ret"
    /\ last' = Stamp(geo[t].entered, now)
    /\ geo' = [geo EXCEPT ![t].pc = "done", ![t].ret = now]
    /\ UNCHANGED <<now, cache, clears, calls, mapVars>>

\* Lines 77-79: the Clear Cache button, st.cache_data.clear(), pressed (in any
\* session) while a caller is between calls, asleep or waiting for the
\* geocoder; the other positions of a call take no time. A press with
\* nothing stored changes nothing.
ClearCache ==
    /\ clears < MaxClears
    /\ cache /= << >>
    /\ \A t \in DOMAIN geo : geo[t].pc \in {"idle", "sleep", "lookup"}
    /\ cache' = << >>
    /\ clears' = clears + 1
    /\ UNCHANGED <<now, last, geo, calls, mapVars>>

(***************************************************************************)
(* A caller that makes one call after another                              *)
(***************************************************************************)

Queries == {Destination, <<"Z","o","o",","," ","R","o","m","e">>}

\* Some idle time passes and the caller calls get_location_coordinates(q).
Call(t) ==
    /\ geo[t].pc = "idle"
    /\ Len(calls) < MaxCalls
    /\ \E q \in Queries, gap \in Gaps :
         /\ now' = now + gap
         /\ GeoEnter(t, q, now + gap)
    /\ UNCHANGED <<last, cache, clears, calls, mapVars>>

\* The caller has the result (or the exception) of its call.
Collect(t) ==
    /\ geo[t].pc \in {"done", "raised"}
    /\ calls' = Append(calls, geo[t])
    /\ geo' = [geo EXCEPT ![t] = Idle]
    /\ UNCHANGED <<now, last, cache, clears, mapVars>>

(***************************************************************************)
(* The itinerary                                                           *)
(***************************************************************************)

\* Days of an itinerary, and activities in all its days together.
MaxDays == 2
MaxActivities == 2

\* colors: the 13 marker colours.
NumColors == 13

\* JSON values that are not strings, told apart from every Python string (a
\* sequence of one-character strings): a missing key, null, a non-empty
\* array, a number.
Absent  == <<"<absent>">>
Null    == <<"<null>">>
AList   == <<"<list>">>
ANumber == <<"<number>">>

IsStr(v) == v \notin {Absent, Null, AList, ANumber}

\* A 'location' text the language model may give: a full address with a
\* prefix, a parenthesis and a postal code (a missing 'location' falls back to
\* the plain 'name').
LocationTexts ==
    { <<"A","t"," ","S","p","a"," ","(","x",")",","," ","1"," ","R","d",","," ",
        "0","0","1","0","0"," ","R","o","m","e",","," ","I","T">> }

\* The activities explored: every kind of 'location', a name, and a
\* 'challenge' that is missing or is not a string.
Activities ==
    [ location  : {Absent, Null, AList} \cup LocationTexts,
      name      : {<<"Z","o","o">>},
      challenge : {Absent, ANumber} ]

NoActivity == [location |-> Absent, name |-> Absent, challenge |-> Absent]

\* dict.get(key, default)
Get(value, default) == IF value = Absent THEN default ELSE value

RECURSIVE Sum(_)
Sum(s) == IF s = <<>> THEN 0 ELSE Head(s) + Sum(Tail(s))

\* The number of activities of each day ('activities' missing counts as none).
Shapes ==
    {d \in UNION {[1..n -> 0..MaxActivities] : n \in 0..MaxDays} : Sum(d) <= MaxActivities}

\* The position (day_idx, act_idx), counted from 1, of the first activity at or
\* after (d, a) in iteration order; <<0, 0>> when there is none.
RECURSIVE NextPos(_, _, _)
NextPos(days, d, a) ==
    IF d > Len(days) THEN <<0, 0>>
    ELSE IF a <= days[d] THEN <<d, a>>
    ELSE NextPos(days, d + 1, 1)

(***************************************************************************)
(* create_map_with_route                                                   *)
(***************************************************************************)

\* The caller of get_location_coordinates in create_map_with_route.
MapThread == 1

NoPrev == [valid |-> FALSE]

CmStart ==
    [ pc |-> "start", error |-> "none", dest_coords |-> None,
      has_map |-> FALSE, map_center |-> None, map_markers |-> <<>>,
      fitted |-> FALSE, map_bounds |-> <<>>,
      all_locations |-> <<>>, markers_added |-> 0, failed_locations |-> <<>>,
      total_activities |-> -1, activity_count |-> 0,
      day_idx |-> 1, act_idx |-> 1,
      activity |-> NoActivity, location_name |-> <<>>,
      act_calls |-> 0, primary |-> None, prev |-> NoPrev,
      retval |-> None ]

CmOff == [CmStart EXCEPT !.pc = "off"]

\* travel_plan and 'days' in travel_plan and len(days) > 0 and 'activities' in
\* first_day and len(first_day['activities']) > 0
HasFirstActivity == plan.hasDays /\ Len(plan.days) > 0 /\ plan.days[1] > 0

\* Lines 209-221: the anchor is looked up from the first activity's location
\* when there is one and it is truthy, else from the destination.
MapStart ==
    /\ cm.pc = "start"
    /\ geo[MapThread].pc = "idle"
    /\ LET first_location == Get(plan.first.location, <<>>)
       IN  IF HasFirstActivity /\ first_location \notin {<<>>, Null}
           THEN /\ GeoEnter(MapThread, first_location, now)
                /\ cm' = [cm EXCEPT !.pc = "await_first"]
           ELSE /\ GeoEnter(MapThread, Destination, now)
                /\ cm' = [cm EXCEPT !.pc = "await_dest"]
    /\ UNCHANGED <<now, last, cache, clears, calls, plan, ui, cleanup>>

\* Lines 227-273: with an anchor the base map is made, centred on it, and the
\* counters start; total_activities is bound only when the plan has 'days'.
WithBaseMap(c, coords) ==
    [c EXCEPT !.pc = IF plan.hasDays THEN "loop" ELSE "finish",
              !.dest_coords = coords,
              !.has_map = TRUE, !.map_center = coords,
              !.total_activities = IF plan.hasDays THEN Sum(plan.days) ELSE -1]

\* Lines 217-221: the first activity's location gave no anchor, the
\* destination name is tried.
MapAfterFirst ==
    /\ cm.pc = "await_first"
    /\ geo[MapThread].pc = "done"
    /\ IF Truthy(geo[MapThread].res)
       THEN /\ cm' = WithBaseMap(cm, geo[MapThread].res)
            /\ geo' = [geo EXCEPT ![MapThread] = Idle]
       ELSE /\ cm' = [cm EXCEPT !.pc = "await_dest"]
            /\ GeoEnter(MapThread, Destination, now)
    /\ UNCHANGED <<now, last, cache, clears, calls, plan, ui, cleanup>>

\* Lines 223-225: without an anchor the function returns None.
MapAfterDest ==
    /\ cm.pc = "await_dest"
    /\ geo[MapThread].pc = "done"
    /\ IF Truthy(geo[MapThread].res)
       THEN cm' = WithBaseMap(cm, geo[MapThread].res)
       ELSE cm' = [cm EXCEPT !.pc = "returned", !.retval = None]
    /\ geo' = [geo EXCEPT ![MapThread] = Idle]
    /\ UNCHANGED <<now, last, cache, clears, calls, plan, ui, cleanup>>

\* What the loop knows of the activity it finished last: the counters before
\* it, the two geocode results and the calls made for it.
PrevOf(c, alt_called, alt, dropped) ==
    [ valid |-> TRUE, challenge |-> c.activity.challenge,
      calls |-> c.act_calls, primary |-> c.primary, alt_called |-> alt_called, alt |-> alt,
      dropped |-> dropped,
      markers_before |-> c.markers_added, failed_before |-> c.failed_locations,
      locations_before |-> c.all_locations, on_map_before |-> c.map_markers ]

\* Lines 285-339 for the activity the loop reaches: the location name, the
\* progress report, the clean-up and the first geocode of one activity.
\* location_name[:50] (outside the try) raises for null when a status
\* placeholder is given; re.sub (inside the try) raises for every value that
\* is not a str, and the except clause goes on with the next activity.
MapLoop ==
    /\ cm.pc = "loop"
    /\ geo[MapThread].pc = "idle"
    /\ LET pos == NextPos(plan.days, cm.day_idx, cm.act_idx)
       IN  IF pos = <<0, 0>>
           THEN /\ cm' = [cm EXCEPT !.pc = "finish"]
                /\ geo' = geo
           ELSE \E drawn \in Activities :
                  LET activity == IF pos = <<1, 1>> THEN plan.first ELSE drawn
                      location_name == Get(activity.location, Get(activity.name, <<>>))
                      c1 == [cm EXCEPT !.day_idx = pos[1], !.act_idx = pos[2] + 1,
                                       !.activity = activity,
                                       !.location_name = location_name,
                                       !.activity_count = cm.activity_count + 1,
                                       !.act_calls = 0, !.primary = None]
                  IN  IF plan.status_placeholder /\ location_name = Null
                      THEN /\ cm' = [c1 EXCEPT !.pc = "raised", !.error = "TypeError line 293"]
                           /\ geo' = geo
                      ELSE IF ~IsStr(location_name)
                      THEN /\ cm' = [c1 EXCEPT !.prev = PrevOf(c1, FALSE, None, TRUE)]
                           /\ geo' = geo
                      ELSE /\ cm' = [c1 EXCEPT !.pc = "await_primary", !.act_calls = 1]
                           /\ GeoEnter(MapThread, CleanLocation(location_name, Destination), now)
    /\ UNCHANGED <<now, last, cache, clears, calls, plan, ui, cleanup>>

NeedsAltAlways(coords_result) == TRUE

\* Line 342: if not coords_result
NeedsAlt(coords_result) == ~Truthy(coords_result)

\* Lines 348-383 with the final coords_result: a found place is appended to
\* all_locations and counted, then the popup is built and the marker added;
\* a challenge that cannot be sliced raises in between, and the except clause
\* goes on with the next activity. A place not found is appended to
\* failed_locations.
Record(c, coords_result, alt_called, alt) ==
    LET p    == PrevOf(c, alt_called, alt, FALSE)
        over == [c EXCEPT !.pc = "loop", !.prev = p]
    IN  IF Truthy(coords_result)
        THEN LET counted == [over EXCEPT !.all_locations = Append(c.all_locations, coords_result),
                                         !.markers_added = c.markers_added + 1]
             IN  IF c.activity.challenge = ANumber
                 THEN counted
                 ELSE [counted EXCEPT !.map_markers =
                          Append(c.map_markers,
                                 [coords |-> coords_result,
                                  color |-> (c.day_idx - 1) % NumColors])]
        ELSE [over EXCEPT !.failed_locations = Append(c.failed_locations, c.location_name)]

\* Lines 339-346: the first geocode is back; when it found nothing the
\* alternate "<name>, <destination>" is geocoded.
MapAfterPrimary ==
    /\ cm.pc = "await_primary"
    /\ geo[MapThread].pc = "done"
    /\ LET coords_result == geo[MapThread].res
           c1 == [cm EXCEPT !.primary = coords_result]
       IN  IF NeedsAlt(coords_result)
           THEN /\ cm' = [c1 EXCEPT !.pc = "await_alt", !.act_calls = 2]
                /\ GeoEnter(MapThread,
                            AltLocation(Get(cm.activity.name, <<>>), Destination), now)
           ELSE /\ cm' = Record(c1, coords_result, FALSE, None)
                /\ geo' = [geo EXCEPT ![MapThread] = Idle]
    /\ UNCHANGED <<now, last, cache, clears, calls, plan, ui, cleanup>>

RetryKeepsPrimary(primary, alt) == primary

\* Line 346: coords_result = get_location_coordinates(alt_location)
RetryResult(primary, alt) == alt

\* Lines 346-383: the alternate geocode is back.
MapAfterAlt ==
    /\ cm.pc = "await_alt"
    /\ geo[MapThread].pc = "done"
    /\ cm' = Record(cm, RetryResult(cm.primary, geo[MapThread].res), TRUE, geo[MapThread].res)
    /\ geo' = [geo EXCEPT ![MapThread] = Idle]
    /\ UNCHANGED <<now, last, cache, clears, calls, plan, ui, cleanup>>

FitAlways(all_locations) == TRUE

\* Line 390: if all_locations
Fit(all_locations) == all_locations /= <<>>

\* Lines 389-397: the bounds are fitted to all_locations when it is not
\* empty; the print of total_activities raises when the plan had no 'days';
\* else the 4-tuple is returned.
MapFinish ==
    /\ cm.pc = "finish"
    /\ LET c1 == IF Fit(cm.all_locations)
                 THEN [cm EXCEPT !.fitted = TRUE, !.map_bounds = cm.all_locations]
                 ELSE cm
       IN  IF cm.total_activities = -1
           THEN cm' = [c1 EXCEPT !.pc = "raised", !.error = "UnboundLocalError line 393"]
           ELSE cm' = [c1 EXCEPT !.pc = "returned",
                                 !.retval = <<"travel_map", c1.markers_added,
                                              c1.total_activities, c1.failed_locations>>]
    /\ UNCHANGED <<geoVars, plan, ui, cleanup>>

(***************************************************************************)
(* The display step of the main script                                     *)
(***************************************************************************)

UiStart == [pc |-> "calling", itinerary_shown |-> TRUE, map_shown |-> FALSE,
            no_map_warning |-> FALSE, error |-> "none"]

UiOff == [UiStart EXCEPT !.pc = "off", !.itinerary_shown = FALSE]

\* Lines 460-483: the result of create_map_with_route is unpacked into four
\* names, which raises for None; an exception of create_map_with_route is
\* not caught either. With a map the markers found are reported and the map
\* shown, else the warning.
Display ==
    /\ ui.pc = "calling"
    /\ cm.pc \in {"returned", "raised"}
    /\ IF cm.pc = "raised"
       THEN ui' = [ui EXCEPT !.pc = "uncaught", !.error = cm.error]
       ELSE IF cm.retval = None
       THEN ui' = [ui EXCEPT !.pc = "uncaught", !.error = "TypeError line 460"]
       ELSE IF cm.has_map
       THEN ui' = [ui EXCEPT !.pc = "done", !.map_shown = TRUE]
       ELSE ui' = [ui EXCEPT !.pc = "done", !.no_map_warning = TRUE]
    /\ UNCHANGED <<geoVars, plan, cm, cleanup>>

Init ==
    /\ now = StartTime
    /\ last = 0
    /\ cache = << >>
    /\ clears = 0
    /\ geo = [t \in {1} |-> Idle]
    /\ calls = << >>
    /\ plan = [hasDays |-> FALSE, days |-> <<>>, first |-> NoActivity, status_placeholder |-> FALSE]
    /\ cm = CmOff
    /\ ui = UiOff
    /\ cleanup = CleanupOff

Next ==
    \/ \E t \in DOMAIN geo : Call(t)
    \/ \E t \in DOMAIN geo : GeoAccess(t)
    \/ \E t \in DOMAIN geo : GeoLookup(t, Latencies)
    \/ \E t \in DOMAIN geo : GeoReturn(t)
    \/ \E t \in DOMAIN geo : Collect(t)
    \/ ClearCache

Spec == Init /\ [][Next]_vars

\* Two callers (threads) that run get_location_coordinates of one module at
\* the same time: they share _last_geocode_time and the cache, and each has
\* its own locals; the statements of the function are the steps of Next.
Callers == {1, 2}

InitConc ==
    /\ now = StartTime
    /\ last = 0
    /\ cache = << >>
    /\ clears = 0
    /\ geo = [t \in Callers |-> Idle]
    /\ calls = << >>
    /\ plan = [hasDays |-> FALSE, days |-> <<>>, first |-> NoActivity, status_placeholder |-> FALSE]
    /\ cm = CmOff
    /\ ui = UiOff
    /\ cleanup = CleanupOff

\* The calls entered so far: the finished ones and those in progress.
Entered == Len(calls) + Cardinality({t \in DOMAIN geo : geo[t].pc /= "idle"})

\* A caller calls get_location_coordinates(q), at once or a moment later,
\* whatever the other caller is doing.
CallConc(t) ==
    /\ geo[t].pc = "idle"
    /\ Entered < MaxCalls
    /\ \E q \in Queries, gap \in {0, 1} :
         /\ now' = now + gap
         /\ GeoEnter(t, q, now + gap)
    /\ UNCHANGED <<last, cache, clears, calls, mapVars>>

\* The statements of the callers interleave in any order; a lookup over the
\* network takes some time.
NextConc ==
    \/ \E t \in DOMAIN geo : CallConc(t)
    \/ \E t \in DOMAIN geo : GeoAccess(t)
    \/ \E t \in DOMAIN geo : GeoLookup(t, {1})
    \/ \E t \in DOMAIN geo : GeoReturn(t)
    \/ \E t \in DOMAIN geo : Collect(t)

SpecConc == InitConc /\ [][NextConc]_vars

\* The display step calls create_map_with_route for a stored plan (the
\* itinerary text is already on the page), or the function is called
\* without placeholders.
InitMap ==
    /\ now = StartTime
    /\ last = 0
    /\ cache = << >>
    /\ clears = 0
    /\ geo = [t \in {MapThread} |-> Idle]
    /\ calls = << >>
    /\ \E hasDays \in BOOLEAN, days \in Shapes, first \in Activities \cup {NoActivity},
          sp \in BOOLEAN :
         /\ hasDays \/ days = <<>>
         /\ (hasDays /\ Len(days) > 0 /\ days[1] > 0) \/ first = NoActivity
         /\ plan = [hasDays |-> hasDays, days |-> days, first |-> first,
                    status_placeholder |-> sp]
         /\ ui = IF sp THEN UiStart ELSE UiOff
    /\ cm = CmStart
    /\ cleanup = CleanupOff

NextMap ==
    \/ MapStart
    \/ MapAfterFirst
    \/ MapAfterDest
    \/ MapLoop
    \/ MapAfterPrimary
    \/ MapAfterAlt
    \/ MapFinish
    \/ Display
    \/ GeoAccess(MapThread)
    \/ GeoLookup(MapThread, {0})
    \/ GeoReturn(MapThread)

SpecMap == InitMap /\ [][NextMap]_vars

(***************************************************************************)
(* The location clean-up, statement by statement                           *)
(***************************************************************************)

\* The pieces the 'location' texts of the clean-up are put together from: a
\* prefix or none, a landmark with or without a parenthesis, a street part or
\* none, a city with no postal code, a 4-digit or a 5-digit one, a country.
LocPrefixes == { <<>>, <<"I","n","s","i","d","e"," ">> }
LocLandmarks ==
    { <<"A","q","u","a","t","i","s">>,
      <<"A","q","u","a","t","i","s"," ","(","L","a","u","s","a","n","n","e",
        " ","A","q","u","a","r","i","u","m",")">> }
LocStreets ==
    { <<>>,
      <<","," ","R","o","u","t","e"," ","d","e"," ","B","e","r","n","e"," ",
        "1","4","4">> }
LocCities ==
    { <<","," ","L","a","u","s","a","n","n","e">>,
      <<","," ","1","0","1","0"," ","L","a","u","s","a","n","n","e">>,
      <<","," ","1","0","1","0","0"," ","L","a","u","s","a","n","n","e">> }
LocCountry == <<","," ","S","w","i","t","z","e","r","l","a","n","d">>

\* The destinations typed: the city of the texts, and another one.
Lausanne == <<"L","a","u","s","a","n","n","e">>
Destinations == {Lausanne, Destination}

\* The clean-up starts (line 299): clean_location = location_name.
InitClean ==
    /\ now = StartTime
    /\ last = 0
    /\ cache = << >>
    /\ clears = 0
    /\ geo = [t \in {1} |-> Idle]
    /\ calls = << >>
    /\ plan = [hasDays |-> FALSE, days |-> <<>>, first |-> NoActivity, status_placeholder |-> FALSE]
    /\ cm = CmOff
    /\ ui = UiOff
    /\ \E p \in LocPrefixes, l \in LocLandmarks, s \in LocStreets, c \in LocCities,
          d \in Destinations :
         LET location_name == p \o l \o s \o c \o LocCountry
         IN  cleanup = [pc |-> "parens", location_name |-> location_name,
                        destination |-> d, clean_location |-> location_name]

\* clean_location after one statement of the clean-up, and the position of
\* the next statement.
Cleaned(to, clean_location) ==
    [cleanup EXCEPT !.pc = to, !.clean_location = clean_location]

\* Line 302: re.sub(r'\([^)]*\)', '', clean_location)
CleanParens ==
    /\ cleanup.pc = "parens"
    /\ cleanup' = Cleaned("prefix", RemoveParens(cleanup.clean_location))
    /\ UNCHANGED <<geoVars, plan, cm, ui>>

\* Line 305: re.sub(r'^(Inside|Near|At|In)\s+', '', clean_location, flags=re.IGNORECASE)
CleanPrefix ==
    /\ cleanup.pc = "prefix"
    /\ cleanup' = Cleaned("parts", RemovePrefix(cleanup.clean_location))
    /\ UNCHANGED <<geoVars, plan, cm, ui>>

\* Lines 309-326: landmark, city, country of a text of 3 parts or more.
CleanParts ==
    /\ cleanup.pc = "parts"
    /\ cleanup' = Cleaned("postal", KeepLandmarkCityCountry(cleanup.clean_location,
                                                            cleanup.destination))
    /\ UNCHANGED <<geoVars, plan, cm, ui>>

\* Line 329: re.sub(r'\b\d{5}\b', '', clean_location)
CleanPostal ==
    /\ cleanup.pc = "postal"
    /\ cleanup' = Cleaned("spaces", RemovePostal(cleanup.clean_location))
    /\ UNCHANGED <<geoVars, plan, cm, ui>>

\* Line 332: re.sub(r'\s+', ' ', clean_location).strip()
CleanSpaces ==
    /\ cleanup.pc = "spaces"
    /\ cleanup' = Cleaned("commas", Strip(CollapseSpaces(cleanup.clean_location)))
    /\ UNCHANGED <<geoVars, plan, cm, ui>>

\* Lines 333-336: re.sub(r',\s*,', ',', clean_location); full_location = clean_location
CleanCommas ==
    /\ cleanup.pc = "commas"
    /\ cleanup' = Cleaned("done", RemoveDoubleCommas(cleanup.clean_location))
    /\ UNCHANGED <<geoVars, plan, cm, ui>>

NextClean ==
    \/ CleanParens
    \/ CleanPrefix
    \/ CleanParts
    \/ CleanPostal
    \/ CleanSpaces
    \/ CleanCommas

SpecClean == InitClean /\ [][NextClean]_vars

(***************************************************************************)
(* The geocoding cache and the rate limiter                                *)
(***************************************************************************)

Looked(c) == c.start >= 0

\* The first call's result is still stored when the second call reaches the
\* cache: no clear since, and less than one hour since it was stored.
StillStored(first, second) ==
    /\ first.q = second.q
    /\ first.pc = "done"
    /\ first.epoch = second.accEpoch
    /\ second.acc < first.at + TTL

\* C1, as stated: two calls with the identical query entered within one hour
\* of each other run the external lookup at most once between them, and the
\* second returns what the first returned.
C1_OnceWithinHourOfFirstCall ==
    \A i, j \in 1..Len(calls) :
        (i < j /\ calls[i].q = calls[j].q /\ calls[j].entered - calls[i].entered <= TTL)
            => /\ ~(Looked(calls[i]) /\ Looked(calls[j]))
               /\ calls[j].res = calls[i].res

\* C1, amended: two calls with the identical query, the cache not cleared
\* between them and the second reaching the cache less than one hour after the
\* result the first returned was stored, run the external lookup at most once
\* (the second runs none), and the second returns what the first returned.
C1_OnceWhileStored ==
    \A i, j \in 1..Len(calls) :
        (i < j /\ StillStored(calls[i], calls[j]))
            => /\ ~Looked(calls[j])
               /\ calls[j].res = calls[i].res

\* Two calls for one query: the first looked a place up, the second was
\* answered from the cache close to the end of the hour.
C1_Witness ==
    \E i, j \in 1..Len(calls) :
        /\ i < j
        /\ StillStored(calls[i], calls[j])
        /\ Looked(calls[i])
        /\ Truthy(calls[i].res)
        /\ calls[j].acc >= calls[i].at + TTL - MinInterval

\* C2: in single-threaded use no two external lookups start less than 1.5 s
\* apart, start to start.
C2_LookupStartsSpaced ==
    \A i, j \in 1..Len(calls) :
        (i < j /\ Looked(calls[i]) /\ Looked(calls[j]))
            => calls[j].start - calls[i].start >= MinInterval

\* Two lookups started exactly 1.5 s apart.
C2_Witness ==
    \E i, j \in 1..Len(calls) :
        /\ i < j
        /\ Looked(calls[i])
        /\ Looked(calls[j])
        /\ calls[j].start - calls[i].start = MinInterval

\* C3, as stated: call i+1 is never entered less than 1.5 s after call i was
\* entered.
C3_EntriesSpaced ==
    \A i \in 1..(Len(calls) - 1) : calls[i + 1].entered - calls[i].entered >= MinInterval

\* C3, amended: call i+1 never reaches _geocode_cached (a hit or a miss) less
\* than 1.5 s after call i wrote the timestamp and returned; the calls
\* themselves may be entered with no time between them.
C3_AccessSpacedFromReturn ==
    \A i \in 1..(Len(calls) - 1) :
        calls[i].pc = "done" => calls[i + 1].acc - calls[i].ret >= MinInterval

\* A call entered the moment the one before returned, answered from the
\* cache 1.5 s later.
C3_Witness ==
    \E i \in 1..(Len(calls) - 1) :
        /\ calls[i + 1].entered = calls[i].ret
        /\ ~Looked(calls[i + 1])
        /\ calls[i + 1].acc - calls[i].ret = MinInterval

\* C9: an exception of the external lookup never leaves
\* get_location_coordinates; the call returns None, None is stored in the
\* cache, and while it is stored a later call with the same query returns
\* None without a lookup.
C9_ExceptionCachedAsNotFound ==
    /\ \A t \in DOMAIN geo : geo[t].pc /= "raised"
    /\ \A i \in 1..Len(calls) :
         calls[i].raised => /\ calls[i].pc = "done"
                            /\ calls[i].res = None
                            /\ calls[i].at >= 0
    /\ \A i, j \in 1..Len(calls) :
         (i < j /\ calls[i].raised /\ StillStored(calls[i], calls[j]))
            => /\ ~Looked(calls[j])
               /\ calls[j].res = None
               /\ calls[j].pc = "done"

\* The geocoder raised in one call, and a later call with the same query was
\* answered None from the cache.
C9_Witness ==
    \E i, j \in 1..Len(calls) :
        /\ i < j
        /\ calls[i].raised
        /\ StillStored(calls[i], calls[j])
        /\ ~Looked(calls[j])
        /\ calls[j].res = None

(***************************************************************************)
(* The marker loop and the display step                                    *)
(***************************************************************************)

\* The loop has just finished an activity (cm.prev tells how).
AfterActivity == cm.pc = "loop" /\ cm.prev.valid

\* The activity finished last found nothing for its cleaned location and a
\* place for "<name>, <destination>".
AlternateFound ==
    /\ AfterActivity
    /\ ~cm.prev.dropped
    /\ ~Truthy(cm.prev.primary)
    /\ cm.prev.alt_called
    /\ Truthy(cm.prev.alt)

Returned == cm.pc = "returned" /\ cm.retval /= None

C5_EveryActivityCounted ==
    Returned => cm.retval[2] + Len(cm.retval[4]) = cm.retval[3]

\* C6: with the anchor resolved, no failure of one activity ends the loop:
\* the function returns its 4-tuple with every activity processed.
C6_ActivityFailureNeverAborts ==
    (cm.pc \in {"returned", "raised"} /\ Truthy(cm.dest_coords) /\ plan.hasDays)
        => /\ Returned
           /\ cm.activity_count = cm.total_activities

\* C7: when no anchor is found the display step ends with the 'no map'
\* warning, without an uncaught error, the itinerary text still shown.
C7_NoAnchorOnlyLosesMap ==
    (ui.pc \in {"done", "uncaught"} /\ cm.pc = "returned" /\ cm.retval = None)
        => /\ ui.pc = "done"
           /\ ui.no_map_warning
           /\ ui.itinerary_shown

C10_BoundsCoverMarkersAndAnchor ==
    Returned =>
        IF cm.markers_added >= 1
        THEN /\ cm.fitted
             /\ Range(cm.all_locations) \subseteq Range(cm.map_bounds)
             /\ cm.dest_coords \in Range(cm.map_bounds)
        ELSE /\ ~cm.fitted
             /\ cm.map_center = cm.dest_coords

\* C10, amended: with a marker the bounds are fitted to the geocoded activity
\* coordinates, one for each activity counted (the anchor is among them only
\* when an activity has its coordinates); without one there is no fit and the
\* map stays centred on the anchor.
C10_BoundsCoverMarkers ==
    Returned =>
        IF cm.markers_added >= 1
        THEN /\ cm.fitted
             /\ Len(cm.map_bounds) = cm.markers_added
             /\ \A k \in 1..Len(cm.map_markers) : cm.map_markers[k].coords \in Range(cm.map_bounds)
             /\ cm.map_center = cm.dest_coords
        ELSE /\ ~cm.fitted
             /\ cm.map_bounds = <<>>
             /\ cm.map_center = cm.dest_coords

\* A map with markers whose bounds do not hold the anchor.
C10_Witness ==
    /\ Returned
    /\ cm.markers_added >= 1
    /\ Len(cm.map_markers) >= 1
    /\ cm.fitted
    /\ cm.dest_coords \notin Range(cm.map_bounds)

(***************************************************************************)
(* The clean-up of a location                                              *)
(***************************************************************************)

AquatisInput ==
    <<"I","n","s","i","d","e"," ">> \o <<"A","q","u","a","t","i","s">>
    \o <<" ","(","L","a","u","s","a","n","n","e"," ","A","q","u","a","r","i","u","m",")">>
    \o <<","," ","R","o","u","t","e"," ","d","e"," ","B","e","r","n","e"," ","1","4","4">>
    \o <<","," ","1","0","1","0"," ","L","a","u","s","a","n","n","e">> \o LocCountry

\* The clean-up of the Aquatis text with the hint "Lausanne" has finished.
AquatisCleaned ==
    /\ cleanup.pc = "done"
    /\ cleanup.location_name = AquatisInput
    /\ cleanup.destination = Lausanne

\* C11: the clean-up of "Inside Aquatis (Lausanne Aquarium), Route de Berne
\* 144, 1010 Lausanne, Switzerland" with the hint "Lausanne" gives exactly
\* "Aquatis, Lausanne, Switzerland".
C11_AquatisExample ==
    AquatisCleaned
        => cleanup.clean_location = <<"A","q","u","a","t","i","s">> \o <<","," ","L","a","u","s","a","n","n","e">> \o LocCountry

(***************************************************************************)
(* Concurrent callers of get_location_coordinates                          *)
(***************************************************************************)

\* The calls of both callers: the finished ones, then what each caller is in.
AllCalls == calls \o [t \in 1..Cardinality(DOMAIN geo) |-> geo[t]]

\* Call a had written the timestamp and returned before call b was entered.
Before(a, b) == a.pc = "done" /\ a.ret < b.entered

\* C12: the minimum spacing depends on sequential use. With two concurrent
\* callers sharing _last_geocode_time, two lookups are at least 1.5 s apart
\* whenever one call had returned before the other was entered; only calls
\* that overlap start lookups closer together, and such an interleaving
\* exists (C12_Witness).
C12_SpacingOnlyBetweenSequentialCalls ==
    \A i, j \in 1..Len(AllCalls) :
        (/\ Looked(AllCalls[i])
         /\ Looked(AllCalls[j])
         /\ Before(AllCalls[i], AllCalls[j]))
            => AllCalls[j].start - AllCalls[i].start >= MinInterval

\* The interleaving: both callers read the timestamp before either wrote it,
\* neither slept long enough for the other, and both lookups started at the
\* same moment.
C12_Witness ==
    \E i, j \in 1..Len(AllCalls) :
        /\ i /= j
        /\ AllCalls[i].pc = "done"
        /\ AllCalls[j].pc = "done"
        /\ Looked(AllCalls[i])
        /\ Looked(AllCalls[j])
        /\ AllCalls[i].entered < AllCalls[j].ret
        /\ AllCalls[j].entered < AllCalls[i].ret
        /\ AllCalls[j].start - AllCalls[i].start \in 0..(MinInterval - 1)

====
